---- MODULE Spec2Model ----
(***************************************************************************)
(* State-machine model of the client in src/frontend/src/App.tsx: the      *)
(* signals of App(), the four localStorage keys it uses, the remote calls  *)
(* in flight, and one action per event handler / response continuation.    *)
(***************************************************************************)
EXTENDS Integers, Sequences, FiniteSets, TLC

\* ------------------------------------------------------------------ bounds
MaxClock   == 2     \* readings Date.now() can take
MaxTweets  == 2     \* generated items plus generate calls in flight
MaxHistory == 4     \* transcript lines of one page session
MaxPosts   == 2     \* post calls in flight
MaxGens    == 2     \* generate calls in flight
MaxAuths   == 2     \* login/signup calls in flight
MaxFeed    == 2     \* tweets in a body of /public-tweets

\* --------------------------------------------------------------- constants
MAX_CHAR_LIMIT == 280

NULL == "<null>"

X10  == "xxxxxxxxxx"
X70  == X10 \o X10 \o X10 \o X10 \o X10 \o X10 \o X10
X280 == X70 \o X70 \o X70 \o X70
LongText == X280 \o "x"                      \* 281 characters

\* texts a user can type or the generation service can return
Contents     == {"a"}                         \* data.content of /generate
DraftTexts   == {"", LongText}                \* values typed in a draft textarea
CommandTexts == {"", "a"}                     \* values typed in the command input
Tokens       == {"tk1"}                       \* data.access_token of /login
Users        == {"ann"}                       \* authUsername()
TweetIds     == {"t71"}                         \* data.tweet.id of a post reply
FeedData     == {<<>>}                        \* bodies of the list endpoints

Outcomes == {"ok", "401", "fail", "neterr"}   \* what a fetch can come back with

\* ------------------------------------------------------------------- state
VARIABLES
  isPublicClone,    \* window.location.hostname.includes("twitter-clone-ui.pages.dev")
  localStorage,     \* keys authToken, loggedInUser, generatedTweets, draftTweets
  mounted,          \* the page is loaded and App() has rendered
  now,              \* Date.now()
  command, history, isPosting, generatedTweet, isGenerating, messageBox,
  showAuthModal, loggedInUser, lastTweetId, showTweetFeedback, tweets,
  generatedTweets, apiError, myTweets, isTyping,
  searchTerm,       \* the characters typed in the "Search tweets..." input
  genReqs,          \* POST /generate calls awaiting their response
  postReqs,         \* handleDirectPost calls awaiting a response
  mineReqs,         \* GET /tweets calls awaiting their response
  feedReqs,         \* GET /public-tweets calls awaiting their response
  authReqs,         \* POST /login|/signup calls awaiting their response
  lastEvent         \* the handler or continuation that ran last

signals == <<command, history, isPosting, generatedTweet, isGenerating,
             messageBox, showAuthModal, loggedInUser, lastTweetId,
             showTweetFeedback, tweets, generatedTweets, apiError, myTweets,
             isTyping>>
inflight == <<genReqs, postReqs, mineReqs, feedReqs, authReqs>>
vars == <<isPublicClone, localStorage, mounted, now, signals, searchTerm,
          inflight, lastEvent>>

\* ----------------------------------------------------------------- helpers
RemoveAt(s, k) == [i \in 1..(Len(s) - 1) |-> IF i < k THEN s[i] ELSE s[i + 1]]

\* String.prototype.trim() leaves nothing
TrimIsEmpty(t) == t \in {"", " "}

Event(op, id, text, aux) == [op |-> op, id |-> id, text |-> text, aux |-> aux]

\* JSON.stringify / JSON.parse of a {id, text, posted}[] value: the stored
\* string lists the members of each object in order.
JSONstringify(list) ==
  [i \in 1..Len(list) |-> <<list[i].id, list[i].text, list[i].posted>>]

\* a parse that loses the posted member
JSONparseDropsPosted(str) ==
  [i \in 1..Len(str) |-> [id |-> str[i][1], text |-> str[i][2], posted |-> FALSE]]

JSONparse(str) ==
  [i \in 1..Len(str) |-> [id |-> str[i][1], text |-> str[i][2], posted |-> str[i][3]]]

\* a localStorage entry holding serialized JSON, and a key that is not set
Stored(str) == [has |-> TRUE, str |-> str]
Absent      == [has |-> FALSE, str |-> <<>>]

NoMessage == [message |-> "", type |-> "none"]       \* messageBox() === null

getAuthToken(ls) ==
  IF ls.authToken # NULL /\ ls.authToken # "undefined" THEN ls.authToken ELSE NULL

IsPosted(t) == t.posted
IsDraft(t)  == ~t.posted

\* write-through of the generatedTweets key alone
WriteEffectsLegacyOnly(ls, gt) ==
  [ls EXCEPT !.generatedTweets = Stored(JSONstringify(gt))]

\* the two write-through effects that observe generatedTweets
WriteEffects(ls, gt) ==
  [ls EXCEPT !.generatedTweets = Stored(JSONstringify(gt)),
             !.draftTweets     = Stored(JSONstringify(SelectSeq(gt, IsDraft)))]

\* a startup without the load effect
LoadEffectNone(ls, gt) == gt

\* the load effect
LoadEffect(ls, gt) ==
  IF ls.generatedTweets.has THEN JSONparse(ls.generatedTweets.str) ELSE gt

\* a merge that takes the snapshot alone
MountMergeDraftsOnly(ls, gt) ==
  IF ls.draftTweets.has THEN JSONparse(ls.draftTweets.str) ELSE gt

\* a merge that keeps the whole previous list
MountMergeKeepsAll(ls, gt) ==
  IF ls.draftTweets.has THEN gt \o JSONparse(ls.draftTweets.str) ELSE gt

\* the draft merge at the end of onMount
MountMerge(ls, gt) ==
  IF ls.draftTweets.has
    THEN SelectSeq(gt, IsPosted) \o JSONparse(ls.draftTweets.str)
    ELSE gt

\* generatedTweets after the load effect, the write effects and the onMount
\* merge have run on a page that starts from localStorage ls
LoadedTweets(ls) ==
  LET gt1 == LoadEffect(ls, <<>>)
  IN  MountMerge(WriteEffects(ls, gt1), gt1)

addToHistory(h, line) == Append(h, line)

\* room left in the transcript for the lines the calls in flight may add
Room(n) == Len(history) + Len(genReqs) + Len(postReqs) + n <= MaxHistory

\* ------------------------------------------------------------------- Init
\* localStorage of a first visit, and of a visitor who logged in on an earlier
\* visit and left no generated items
FreshStorage ==
  [authToken |-> NULL, loggedInUser |-> NULL,
   generatedTweets |-> Absent, draftTweets |-> Absent]

ReturningStorage ==
  {[authToken |-> t, loggedInUser |-> u,
    generatedTweets |-> Stored(<<>>), draftTweets |-> Stored(<<>>)] :
      t \in Tokens, u \in Users}

Init ==
  /\ isPublicClone \in BOOLEAN
  /\ localStorage = FreshStorage
  /\ mounted = FALSE
  /\ now = 1
  /\ command = ""
  /\ history = <<>>
  /\ isPosting = FALSE
  /\ generatedTweet = NULL
  /\ isGenerating = FALSE
  /\ messageBox = NoMessage
  /\ showAuthModal = FALSE
  /\ loggedInUser = NULL
  /\ lastTweetId = NULL
  /\ showTweetFeedback = FALSE
  /\ tweets = <<>>
  /\ generatedTweets = <<>>
  /\ apiError = NULL
  /\ myTweets = <<>>
  /\ isTyping = FALSE
  /\ searchTerm = <<>>
  /\ genReqs = <<>>
  /\ postReqs = <<>>
  /\ mineReqs = <<>>
  /\ feedReqs = <<>>
  /\ authReqs = <<>>
  /\ lastEvent = Event("init", 0, "", "")

\* items and lists that the two keys of localStorage can hold when a page is
\* opened: the keys are shared with other tabs and with whatever wrote them
\* before, so they need not agree with each other
StoredItems ==
  [id : 1..MaxClock, text : Contents \cup {""}, posted : BOOLEAN]

StoredLists ==
  UNION {[1..n -> StoredItems] : n \in 0..MaxTweets}

StoredDrafts ==
  {l \in StoredLists : \A i \in 1..Len(l) : ~l[i].posted}

AnyStorage(g, d) ==
  [authToken |-> NULL, loggedInUser |-> NULL,
   generatedTweets |-> Stored(JSONstringify(g)),
   draftTweets |-> Stored(JSONstringify(d))]

\* a visitor opens the page on such a localStorage
InitStored ==
  /\ isPublicClone \in BOOLEAN
  /\ \E g \in StoredLists, d \in StoredDrafts : localStorage = AnyStorage(g, d)
  /\ mounted = FALSE
  /\ now = 1
  /\ command = ""
  /\ history = <<>>
  /\ isPosting = FALSE
  /\ generatedTweet = NULL
  /\ isGenerating = FALSE
  /\ messageBox = NoMessage
  /\ showAuthModal = FALSE
  /\ loggedInUser = NULL
  /\ lastTweetId = NULL
  /\ showTweetFeedback = FALSE
  /\ tweets = <<>>
  /\ generatedTweets = <<>>
  /\ apiError = NULL
  /\ myTweets = <<>>
  /\ isTyping = FALSE
  /\ searchTerm = <<>>
  /\ genReqs = <<>>
  /\ postReqs = <<>>
  /\ mineReqs = <<>>
  /\ feedReqs = <<>>
  /\ authReqs = <<>>
  /\ lastEvent = Event("init", 0, "", "")

\* a visitor who logged in on an earlier visit opens the page
InitReturning ==
  /\ isPublicClone \in BOOLEAN
  /\ localStorage \in ReturningStorage
  /\ mounted = FALSE
  /\ now = 1
  /\ command = ""
  /\ history = <<>>
  /\ isPosting = FALSE
  /\ generatedTweet = NULL
  /\ isGenerating = FALSE
  /\ messageBox = NoMessage
  /\ showAuthModal = FALSE
  /\ loggedInUser = NULL
  /\ lastTweetId = NULL
  /\ showTweetFeedback = FALSE
  /\ tweets = <<>>
  /\ generatedTweets = <<>>
  /\ apiError = NULL
  /\ myTweets = <<>>
  /\ isTyping = FALSE
  /\ searchTerm = <<>>
  /\ genReqs = <<>>
  /\ postReqs = <<>>
  /\ mineReqs = <<>>
  /\ feedReqs = <<>>
  /\ authReqs = <<>>
  /\ lastEvent = Event("init", 0, "", "")

\* ------------------------------------------------------- page load / reload
\* A (re)load discards the signals and the calls of the previous page, keeps
\* localStorage, and runs the effects and onMount in creation order.
Load ==
  LET gt1   == LoadEffect(localStorage, <<>>)
      ls1   == WriteEffects(localStorage, gt1)
      token == getAuthToken(ls1)
      user  == ls1.loggedInUser
      auth  == token # NULL /\ user # NULL
      gt2   == MountMerge(ls1, gt1)
  IN  /\ mounted' = TRUE
      /\ command' = ""
      /\ history' = <<>>
      /\ isPosting' = FALSE
      /\ generatedTweet' = NULL
      /\ isGenerating' = FALSE
      /\ messageBox' = NoMessage
      /\ showAuthModal' = FALSE
      /\ lastTweetId' = NULL
      /\ showTweetFeedback' = FALSE
      /\ tweets' = <<>>
      /\ apiError' = NULL
      /\ myTweets' = <<>>
      /\ isTyping' = FALSE
      /\ searchTerm' = <<>>
      /\ loggedInUser' = IF auth THEN user ELSE NULL
      /\ mineReqs' = IF auth THEN <<[token |-> token]>> ELSE <<>>
      /\ feedReqs' = <<[token |-> NULL]>>
      /\ genReqs' = <<>>
      /\ postReqs' = <<>>
      /\ authReqs' = <<>>
      /\ generatedTweets' = gt2
      /\ localStorage' = WriteEffects(ls1, gt2)
      /\ lastEvent' = Event("load", 0, "", "")
      /\ UNCHANGED <<isPublicClone, now>>

\* the clock advances between two events
Tick ==
  /\ now < MaxClock
  /\ now' = now + 1
  /\ lastEvent' = Event("tick", 0, "", "")
  /\ UNCHANGED <<isPublicClone, searchTerm, localStorage, mounted, signals, inflight>>

\* ------------------------------------------------------------ command input
\* onInput of the command input (typing, or the speech transcript)
onInputCommand(v) ==
  /\ mounted
  /\ v # command
  /\ command' = v
  /\ genReqs' = [i \in 1..Len(genReqs) |-> [genReqs[i] EXCEPT !.retyped = TRUE]]
  /\ lastEvent' = Event("input", 0, "", "")
  /\ UNCHANGED <<isPublicClone, searchTerm, localStorage, mounted, now, history, isPosting,
                 generatedTweet, isGenerating, messageBox, showAuthModal,
                 loggedInUser, lastTweetId, showTweetFeedback, tweets,
                 generatedTweets, apiError, myTweets, isTyping,
                 postReqs, mineReqs, feedReqs, authReqs>>

\* ---------------------------------------------------------------- generate
\* generateTweet(topic) up to its await: the part that runs in the UI event
generateTweet(topic, via) ==
  IF TrimIsEmpty(topic)
    THEN UNCHANGED <<history, isTyping, isGenerating, genReqs>>
    ELSE /\ history' = addToHistory(history, <<"You", topic>>)
         /\ isTyping' = TRUE
         /\ isGenerating' = TRUE
         /\ genReqs' = Append(genReqs, [topic |-> topic,
                                        token |-> getAuthToken(localStorage),
                                        via |-> via, retyped |-> FALSE])

\* room for one more generate call within the bounds of the model
CanGenerate ==
  /\ Len(genReqs) < MaxGens
  /\ Len(generatedTweets) + Len(genReqs) < MaxTweets
  /\ Room(2)

\* onKeyDown of the command input with key Enter
CommandEnterKey ==
  /\ mounted
  /\ CanGenerate
  /\ generateTweet(command, "enter")
  /\ command' = ""
  /\ lastEvent' = Event("generateEnter", 0, "", "")
  /\ UNCHANGED <<isPublicClone, searchTerm, localStorage, mounted, now, isPosting,
                 generatedTweet, messageBox, showAuthModal, loggedInUser,
                 lastTweetId, showTweetFeedback, tweets, generatedTweets,
                 apiError, myTweets, postReqs, mineReqs, feedReqs, authReqs>>

\* onClick of "Generate via AI", disabled while isGenerating()
GenerateButtonClick ==
  /\ mounted
  /\ CanGenerate
  /\ ~isGenerating
  /\ generateTweet(command, "button")
  /\ lastEvent' = Event("generateClick", 0, "", "")
  /\ UNCHANGED <<isPublicClone, searchTerm, localStorage, mounted, now, command, isPosting,
                 generatedTweet, messageBox, showAuthModal, loggedInUser,
                 lastTweetId, showTweetFeedback, tweets, generatedTweets,
                 apiError, myTweets, postReqs, mineReqs, feedReqs, authReqs>>

\* an item created as already posted
NewItemPosted(content) == [id |-> now, text |-> content, posted |-> TRUE]

\* the item a successful generation appends
NewItem(content) == [id |-> now, text |-> content, posted |-> FALSE]

\* fetch() rejects: no response arrives
FetchThrows(outcome) == outcome = "neterr"

\* a handler that never looks at the status
IsUnauthorizedNever(outcome) == FALSE

\* res.status === 401
IsUnauthorized(outcome) == outcome = "401"

\* a handler that never looks at res.ok
ResOkAlways(outcome) == TRUE

\* res.ok
ResOk(outcome) == outcome = "ok"

\* generateTweet from the response of /generate to its end
GenerateResponse(k, outcome, content) ==
  LET r == genReqs[k] IN
  /\ genReqs' = RemoveAt(genReqs, k)
  /\ isGenerating' = FALSE
  /\ isTyping' = FALSE
  /\ lastEvent' = Event("generate:" \o outcome,
                        IF outcome = "ok" THEN now ELSE 0,
                        IF outcome = "ok" THEN content ELSE r.topic,
                        IF r.retyped THEN "retyped" ELSE r.via)
  /\ CASE FetchThrows(outcome) ->
            /\ messageBox' = [message |-> "Failed to fetch", type |-> "error"]
            /\ apiError' = "Failed to fetch"
            /\ UNCHANGED <<localStorage, loggedInUser, showAuthModal,
                           generatedTweet, history, generatedTweets>>
       [] ~FetchThrows(outcome) /\ IsUnauthorized(outcome) ->
            /\ localStorage' = [localStorage EXCEPT !.authToken = NULL]
            /\ loggedInUser' = NULL
            /\ showAuthModal' = TRUE
            /\ messageBox' = [message |-> "Session expired. Please log in again.",
                              type |-> "error"]
            /\ apiError' = "Session expired. Please log in again."
            /\ UNCHANGED <<generatedTweet, history, generatedTweets>>
       [] ~FetchThrows(outcome) /\ ~IsUnauthorized(outcome) /\ ~ResOk(outcome) ->
            /\ messageBox' = [message |-> "Generation failed", type |-> "error"]
            /\ apiError' = "Generation failed"
            /\ UNCHANGED <<localStorage, loggedInUser, showAuthModal,
                           generatedTweet, history, generatedTweets>>
       [] OTHER ->
            /\ generatedTweet' = content
            /\ history' = addToHistory(history, <<"AI", content>>)
            /\ generatedTweets' = Append(generatedTweets, NewItem(content))
            /\ localStorage' = WriteEffects(localStorage, generatedTweets')
            /\ UNCHANGED <<loggedInUser, showAuthModal, messageBox, apiError>>
  /\ UNCHANGED <<isPublicClone, searchTerm, mounted, now, command, isPosting, lastTweetId,
                 showTweetFeedback, tweets, myTweets,
                 postReqs, mineReqs, feedReqs, authReqs>>

\* -------------------------------------------------------------------- post
showError(msg) == [message |-> msg, type |-> "error"]

\* setGeneratedTweets(prev => prev.map(t => t.id === id ? {...t, posted: true} : t))
MarkPostedById(gt, id) ==
  [i \in 1..Len(gt) |-> IF gt[i].id = id THEN [gt[i] EXCEPT !.posted = TRUE] ELSE gt[i]]

\* setGeneratedTweets(prev => prev.map(t => t.text === content ? {...t, posted: true} : t))
MarkPostedByText(gt, content) ==
  [i \in 1..Len(gt) |-> IF gt[i].text = content THEN [gt[i] EXCEPT !.posted = TRUE] ELSE gt[i]]

\* what postGeneratedTweet(id) does after its await; a direct post has id 0
AfterAwait(gt, id) == IF id # 0 THEN MarkPostedById(gt, id) ELSE gt

\* generatedTweets().find(t => t.id === id)
FindById(gt, id) ==
  LET hits == {i \in 1..Len(gt) : gt[i].id = id}
  IN  gt[CHOOSE i \in hits : \A j \in hits : i <= j]

CanPost == Len(postReqs) < MaxPosts /\ Room(1)

\* handleDirectPost(content) up to its first await, followed, when it returned
\* without awaiting, by the rest of postGeneratedTweet(id)
handleDirectPost(content, id) ==
  IF TrimIsEmpty(content)
    THEN /\ messageBox' = showError("Cannot post empty tweet")
         /\ apiError' = "Cannot post empty tweet"
         /\ generatedTweets' = AfterAwait(generatedTweets, id)
         /\ localStorage' = IF id # 0
                              THEN WriteEffects(localStorage, generatedTweets')
                              ELSE localStorage
         /\ UNCHANGED <<isPosting, postReqs>>
    ELSE /\ isPosting' = TRUE
         /\ postReqs' = Append(postReqs,
              [content |-> content, id |-> id, stage |-> "primary",
               endpoint |-> IF isPublicClone THEN "/public-post" ELSE "/direct-post",
               token |-> IF isPublicClone THEN NULL ELSE getAuthToken(localStorage),
               tweetId |-> NULL])
         /\ UNCHANGED <<messageBox, apiError, generatedTweets, localStorage>>

\* onClick of the "Post" button under the command input
CommandPostButtonClick ==
  /\ mounted
  /\ CanPost
  /\ ~(isPosting \/ TrimIsEmpty(command))
  /\ handleDirectPost(command, 0)
  /\ lastEvent' = Event("postCommand", 0, "", "")
  /\ UNCHANGED <<isPublicClone, searchTerm, mounted, now, command, history, generatedTweet,
                 isGenerating, showAuthModal, loggedInUser, lastTweetId,
                 showTweetFeedback, tweets, myTweets, isTyping,
                 genReqs, mineReqs, feedReqs, authReqs>>

\* onClick of "Post" in the generated-tweet preview
PreviewPostButtonClick ==
  /\ mounted
  /\ CanPost
  /\ generatedTweet # NULL
  /\ handleDirectPost(generatedTweet, 0)
  /\ lastEvent' = Event("postPreview", 0, "", "")
  /\ UNCHANGED <<isPublicClone, searchTerm, mounted, now, command, history, generatedTweet,
                 isGenerating, showAuthModal, loggedInUser, lastTweetId,
                 showTweetFeedback, tweets, myTweets, isTyping,
                 genReqs, mineReqs, feedReqs, authReqs>>

\* onClick of "Edit" in the preview
PreviewEditButtonClick ==
  /\ mounted
  /\ generatedTweet # NULL
  /\ command' = generatedTweet
  /\ generatedTweet' = NULL
  /\ genReqs' = [i \in 1..Len(genReqs) |-> [genReqs[i] EXCEPT !.retyped = TRUE]]
  /\ lastEvent' = Event("previewEdit", 0, "", "")
  /\ UNCHANGED <<isPublicClone, searchTerm, localStorage, mounted, now, history, isPosting,
                 isGenerating, messageBox, showAuthModal, loggedInUser,
                 lastTweetId, showTweetFeedback, tweets, generatedTweets,
                 apiError, myTweets, isTyping,
                 postReqs, mineReqs, feedReqs, authReqs>>

\* onClick of "Delete" in the preview
PreviewDeleteButtonClick ==
  /\ mounted
  /\ generatedTweet # NULL
  /\ generatedTweet' = NULL
  /\ lastEvent' = Event("previewDelete", 0, "", "")
  /\ UNCHANGED <<isPublicClone, searchTerm, localStorage, mounted, now, command, history,
                 isPosting, isGenerating, messageBox, showAuthModal,
                 loggedInUser, lastTweetId, showTweetFeedback, tweets,
                 generatedTweets, apiError, myTweets, isTyping, inflight>>

\* a button that ignores the length of the text
DraftPostDisabledNoLimit(tweet) == isPosting

\* the disabled attribute of a draft's "Post" button
DraftPostDisabled(tweet) == isPosting \/ Len(tweet.text) > MAX_CHAR_LIMIT

\* postGeneratedTweet(id) up to the first await inside handleDirectPost
postGeneratedTweet(id) ==
  handleDirectPost(FindById(generatedTweets, id).text, id)

\* a click on the "Post" button of the draft rendered from generatedTweets[k];
\* a disabled button dispatches no click
DraftPostButtonClick(k) ==
  LET tweet == generatedTweets[k] IN
  /\ mounted
  /\ CanPost
  /\ ~tweet.posted
  /\ IF DraftPostDisabled(tweet)
       THEN /\ lastEvent' = Event("publishDisabled", tweet.id, "", "")
            /\ UNCHANGED <<messageBox, apiError, generatedTweets, localStorage,
                           isPosting, postReqs>>
       ELSE /\ postGeneratedTweet(tweet.id)
            /\ lastEvent' = Event("publish", tweet.id, "", "")
  /\ UNCHANGED <<isPublicClone, searchTerm, mounted, now, command, history, generatedTweet,
                 isGenerating, showAuthModal, loggedInUser, lastTweetId,
                 showTweetFeedback, tweets, myTweets, isTyping,
                 genReqs, mineReqs, feedReqs, authReqs>>

\* handleDirectPost's catch and finally, then the rest of postGeneratedTweet
PostFailed(r, msg) ==
  /\ messageBox' = showError(msg)
  /\ apiError' = msg
  /\ isPosting' = FALSE
  /\ generatedTweets' = AfterAwait(generatedTweets, r.id)
  /\ localStorage' = IF r.id # 0
                       THEN WriteEffects(localStorage, generatedTweets')
                       ELSE localStorage
  /\ UNCHANGED <<history, tweets, myTweets, generatedTweet, showTweetFeedback,
                 lastTweetId>>

\* handleDirectPost from addToHistory to its end, then the rest of
\* postGeneratedTweet
PostSucceeded(r, tweetId) ==
  LET newTweet == [id |-> tweetId, content |-> r.content, text |-> r.content] IN
  /\ history' = addToHistory(history, <<"AI-Posted", newTweet.text>>)
  /\ tweets' = <<newTweet>> \o tweets
  /\ myTweets' = <<newTweet>> \o myTweets
  /\ generatedTweet' = NULL
  /\ showTweetFeedback' = TRUE
  /\ lastTweetId' = tweetId
  /\ generatedTweets' = AfterAwait(MarkPostedByText(generatedTweets, r.content), r.id)
  /\ localStorage' = WriteEffects(localStorage, generatedTweets')
  /\ isPosting' = FALSE
  /\ UNCHANGED <<messageBox, apiError>>

\* the response of /public-post or /direct-post
PostPrimaryResponse(k, outcome, tweetId) ==
  LET r == postReqs[k] IN
  /\ r.stage = "primary"
  /\ CASE FetchThrows(outcome) ->
            /\ PostFailed(r, "Failed to fetch")
            /\ postReqs' = RemoveAt(postReqs, k)
            /\ lastEvent' = Event("post:" \o outcome, r.id, "", "")
       [] ~FetchThrows(outcome) /\ ~ResOk(outcome) ->
            /\ PostFailed(r, "Post failed")
            /\ postReqs' = RemoveAt(postReqs, k)
            /\ lastEvent' = Event("post:" \o outcome, r.id, "", "")
       [] OTHER ->
            IF r.endpoint = "/public-post"
              THEN /\ PostSucceeded(r, tweetId)
                   /\ postReqs' = RemoveAt(postReqs, k)
                   /\ lastEvent' = Event("post:" \o outcome, r.id, "", tweetId)
              ELSE /\ postReqs' = [postReqs EXCEPT ![k].stage = "mirror",
                                                   ![k].tweetId = tweetId]
                   /\ lastEvent' = Event("post:mirroring", r.id, "", "")
                   /\ UNCHANGED <<history, tweets, myTweets, generatedTweet,
                                  showTweetFeedback, lastTweetId, generatedTweets,
                                  localStorage, isPosting, messageBox, apiError>>
  /\ UNCHANGED <<isPublicClone, searchTerm, mounted, now, command, isGenerating,
                 showAuthModal, loggedInUser, isTyping,
                 genReqs, mineReqs, feedReqs, authReqs>>

\* the response of the mirror service's /post_tweet
PostMirrorResponse(k, outcome) ==
  LET r == postReqs[k] IN
  /\ r.stage = "mirror"
  /\ postReqs' = RemoveAt(postReqs, k)
  /\ IF FetchThrows(outcome)
       THEN /\ PostFailed(r, "Failed to fetch")
            /\ lastEvent' = Event("post:ok", r.id, "mirror:" \o outcome, r.tweetId)
       ELSE /\ PostSucceeded(r, r.tweetId)
            /\ lastEvent' = Event("post:ok", r.id, "mirror:" \o outcome, r.tweetId)
  /\ UNCHANGED <<isPublicClone, searchTerm, mounted, now, command, isGenerating,
                 showAuthModal, loggedInUser, isTyping,
                 genReqs, mineReqs, feedReqs, authReqs>>

\* ------------------------------------------------------------ edit / delete
\* prev => prev.map(t => t.id === id ? {...t, text: newText} : t)
editGeneratedTweet(gt, id, newText) ==
  [i \in 1..Len(gt) |-> IF gt[i].id = id THEN [gt[i] EXCEPT !.text = newText] ELSE gt[i]]

\* a delete that spares posted items
deleteGeneratedTweetDraftsOnly(gt, id) ==
  LET Keep(t) == t.id # id \/ t.posted IN SelectSeq(gt, Keep)

\* prev => prev.filter(t => t.id !== id)
deleteGeneratedTweet(gt, id) ==
  LET Keep(t) == t.id # id IN SelectSeq(gt, Keep)

\* onInput of the textarea of the draft rendered from generatedTweets[k]
DraftTextareaInput(k, newText) ==
  LET tweet == generatedTweets[k] IN
  /\ mounted
  /\ ~tweet.posted
  /\ newText # tweet.text
  /\ generatedTweets' = editGeneratedTweet(generatedTweets, tweet.id, newText)
  /\ localStorage' = WriteEffects(localStorage, generatedTweets')
  /\ lastEvent' = Event("edit", tweet.id, "", "")
  /\ UNCHANGED <<isPublicClone, searchTerm, mounted, now, command, history, isPosting,
                 generatedTweet, isGenerating, messageBox, showAuthModal,
                 loggedInUser, lastTweetId, showTweetFeedback, tweets,
                 apiError, myTweets, isTyping, inflight>>

\* onClick of the delete button of the item rendered from generatedTweets[k]
DeleteButtonClick(k) ==
  LET tweet == generatedTweets[k] IN
  /\ mounted
  /\ generatedTweets' = deleteGeneratedTweet(generatedTweets, tweet.id)
  /\ localStorage' = WriteEffects(localStorage, generatedTweets')
  /\ lastEvent' = Event("delete", tweet.id, "", "")
  /\ UNCHANGED <<isPublicClone, searchTerm, mounted, now, command, history, isPosting,
                 generatedTweet, isGenerating, messageBox, showAuthModal,
                 loggedInUser, lastTweetId, showTweetFeedback, tweets,
                 apiError, myTweets, isTyping, inflight>>

\* ------------------------------------------------------------------ session
\* onClick of "Logout", rendered while loggedInUser()
handleLogout ==
  /\ mounted
  /\ loggedInUser # NULL
  /\ loggedInUser' = NULL
  /\ tweets' = <<>>
  /\ myTweets' = <<>>
  /\ generatedTweets' = <<>>
  /\ localStorage' = WriteEffects([localStorage EXCEPT !.authToken = NULL,
                                                       !.loggedInUser = NULL], <<>>)
  /\ history' = <<>>
  /\ generatedTweet' = NULL
  /\ messageBox' = [message |-> "Logged out successfully", type |-> "info"]
  /\ lastEvent' = Event("logout", 0, "", "")
  /\ UNCHANGED <<isPublicClone, searchTerm, mounted, now, command, isPosting, isGenerating,
                 showAuthModal, lastTweetId, showTweetFeedback, apiError,
                 isTyping, inflight>>

\* onClick of "Login", rendered while no user is logged in
LoginButtonClick ==
  /\ mounted
  /\ loggedInUser = NULL
  /\ ~showAuthModal
  /\ showAuthModal' = TRUE
  /\ lastEvent' = Event("openAuth", 0, "", "")
  /\ UNCHANGED <<isPublicClone, searchTerm, localStorage, mounted, now, command, history,
                 isPosting, generatedTweet, isGenerating, messageBox,
                 loggedInUser, lastTweetId, showTweetFeedback, tweets,
                 generatedTweets, apiError, myTweets, isTyping, inflight>>

\* onClick of the close button of the auth modal
AuthModalClose ==
  /\ mounted
  /\ showAuthModal
  /\ showAuthModal' = FALSE
  /\ lastEvent' = Event("closeAuth", 0, "", "")
  /\ UNCHANGED <<isPublicClone, searchTerm, localStorage, mounted, now, command, history,
                 isPosting, generatedTweet, isGenerating, messageBox,
                 loggedInUser, lastTweetId, showTweetFeedback, tweets,
                 generatedTweets, apiError, myTweets, isTyping, inflight>>

\* handleAuthSubmit up to its await: onSubmit of the form in the auth modal
handleAuthSubmit(username) ==
  /\ mounted
  /\ showAuthModal
  /\ Len(authReqs) < MaxAuths
  /\ authReqs' = Append(authReqs, [username |-> username])
  /\ lastEvent' = Event("authSubmit", 0, "", "")
  /\ UNCHANGED <<isPublicClone, searchTerm, localStorage, mounted, now, signals,
                 genReqs, postReqs, mineReqs, feedReqs>>

\* handleAuthSubmit from the response of /login or /signup to its end
AuthResponse(k, outcome, token) ==
  LET r == authReqs[k] IN
  /\ authReqs' = RemoveAt(authReqs, k)
  /\ lastEvent' = Event("auth:" \o outcome, 0, "", "")
  /\ IF ~FetchThrows(outcome) /\ ResOk(outcome)
       THEN /\ localStorage' = [localStorage EXCEPT !.authToken = token,
                                                    !.loggedInUser = r.username]
            /\ loggedInUser' = r.username
            /\ showAuthModal' = FALSE
            /\ UNCHANGED messageBox
       ELSE /\ messageBox' = [message |-> "Authentication failed", type |-> "error"]
            /\ UNCHANGED <<localStorage, loggedInUser, showAuthModal>>
  /\ UNCHANGED <<isPublicClone, searchTerm, mounted, now, command, history, isPosting,
                 generatedTweet, isGenerating, lastTweetId, showTweetFeedback,
                 tweets, generatedTweets, apiError, myTweets, isTyping,
                 genReqs, postReqs, mineReqs, feedReqs>>

\* -------------------------------------------------------------------- feeds
\* fetchTweets from the response of /public-tweets to its end
FetchTweetsResponse(outcome, data) ==
  /\ feedReqs # <<>>
  /\ feedReqs' = Tail(feedReqs)
  /\ IF outcome = "neterr"
       THEN /\ messageBox' = showError("Network error: Failed to fetch")
            /\ apiError' = "Network error: Failed to fetch"
            /\ tweets' = <<>>
            /\ lastEvent' = Event("feedNetErr", 0, "", "")
       ELSE /\ tweets' = data
            /\ lastEvent' = Event("feedOk", 0, "", "")
            /\ UNCHANGED <<messageBox, apiError>>
  /\ UNCHANGED <<isPublicClone, searchTerm, localStorage, mounted, now, command, history,
                 isPosting, generatedTweet, isGenerating, showAuthModal,
                 loggedInUser, lastTweetId, showTweetFeedback,
                 generatedTweets, myTweets, isTyping,
                 genReqs, postReqs, mineReqs, authReqs>>

\* fetchMyTweets from the response of /tweets to its end
FetchMyTweetsResponse(outcome, data) ==
  /\ mineReqs # <<>>
  /\ mineReqs' = Tail(mineReqs)
  /\ IF outcome = "ok"
       THEN /\ myTweets' = data
            /\ lastEvent' = Event("mineOk", 0, "", "")
            /\ UNCHANGED <<localStorage, loggedInUser, messageBox>>
       ELSE /\ localStorage' = [localStorage EXCEPT !.authToken = NULL]
            /\ loggedInUser' = NULL
            /\ messageBox' = showError("Login required to view your tweets.")
            /\ lastEvent' = Event("mineFail", 0, "", outcome)
            /\ UNCHANGED myTweets
  /\ UNCHANGED <<isPublicClone, searchTerm, mounted, now, command, history, isPosting,
                 generatedTweet, isGenerating, showAuthModal, lastTweetId,
                 showTweetFeedback, tweets, generatedTweets, apiError,
                 isTyping, genReqs, postReqs, feedReqs, authReqs>>

\* --------------------------------------------------------------- feed filter
\* texts of fetched tweets and search terms, as sequences of characters
FeedTexts   == {<<"a">>, <<"A", "b">>, <<"b", "a">>}
SearchTerms == {<<>>, <<"a">>, <<"A">>, <<"B", "A">>, <<"a", "b">>, <<"c">>}

\* a tweet of the feed; an absent or empty member is <<>>
FeedTweets ==
  [id : TweetIds, content : FeedTexts \cup {<<>>}, text : FeedTexts \cup {<<>>}]

\* the lists GET /public-tweets can return
FeedLists ==
  UNION {[1..n -> FeedTweets] : n \in 0..MaxFeed}

\* a lower-casing that leaves every character as it is
toLowerCaseKeepsCase(str) == str

\* String.prototype.toLowerCase, character by character
toLowerCase(str) ==
  [i \in 1..Len(str) |->
     CASE str[i] = "A" -> "a"
       [] str[i] = "B" -> "b"
       [] str[i] = "C" -> "c"
       [] OTHER -> str[i]]

\* String.prototype.includes
includes(str, part) ==
  \E k \in 0..(Len(str) - Len(part)) :
    \A j \in 1..Len(part) : str[k + j] = part[j]

\* tweet.content || tweet.text || ""
tweetText(tweet) ==
  IF tweet.content # <<>> THEN tweet.content
  ELSE IF tweet.text # <<>> THEN tweet.text
  ELSE <<>>

\* the predicate of the feed's filter
matchesSearch(tweet) ==
  includes(toLowerCase(tweetText(tweet)), toLowerCase(searchTerm))

\* the list the feed renders: tweets().filter(...)
displayedTweets == SelectSeq(tweets, matchesSearch)

\* onInput of the "Search tweets..." input
onInputSearch(v) ==
  /\ mounted
  /\ v # searchTerm
  /\ searchTerm' = v
  /\ lastEvent' = Event("search", 0, "", "")
  /\ UNCHANGED <<isPublicClone, localStorage, mounted, now, signals, inflight>>

\* ------------------------------------------------------------------ notices
\* onClick of "OK" in the message box or of the close button of the error toast
closeMessageBox ==
  /\ mounted
  /\ messageBox # NoMessage \/ apiError # NULL
  /\ messageBox' = NoMessage
  /\ apiError' = NULL
  /\ lastEvent' = Event("closeMessage", 0, "", "")
  /\ UNCHANGED <<isPublicClone, searchTerm, localStorage, mounted, now, command, history,
                 isPosting, generatedTweet, isGenerating, showAuthModal,
                 loggedInUser, lastTweetId, showTweetFeedback, tweets,
                 generatedTweets, myTweets, isTyping, inflight>>

\* ------------------------------------------------------------ next-state
\* loading or reloading the page, and the passing of time
NextPage ==
  \/ Load
  \/ Tick

\* typing a topic and generating a draft from it
NextGenerate ==
  \/ \E v \in CommandTexts : onInputCommand(v)
  \/ CommandEnterKey
  \/ GenerateButtonClick
  \/ \E k \in 1..Len(genReqs), o \in Outcomes, c \in Contents :
        GenerateResponse(k, o, c)

\* publishing a draft
NextPublish ==
  \/ \E k \in 1..Len(generatedTweets) : DraftPostButtonClick(k)
  \/ \E k \in 1..Len(postReqs), o \in Outcomes, t \in TweetIds :
        PostPrimaryResponse(k, o, t)
  \/ \E k \in 1..Len(postReqs), o \in Outcomes : PostMirrorResponse(k, o)

\* editing and deleting generated items
NextEdit ==
  \/ \E k \in 1..Len(generatedTweets), t \in DraftTexts : DraftTextareaInput(k, t)
  \/ \E k \in 1..Len(generatedTweets) : DeleteButtonClick(k)

\* posting the command input or the preview directly
NextDirect ==
  \/ CommandPostButtonClick
  \/ PreviewPostButtonClick
  \/ PreviewEditButtonClick
  \/ PreviewDeleteButtonClick

\* logging in and out
NextSession ==
  \/ handleLogout
  \/ LoginButtonClick
  \/ AuthModalClose
  \/ \E u \in Users : handleAuthSubmit(u)
  \/ \E k \in 1..Len(authReqs), o \in Outcomes, t \in Tokens :
        AuthResponse(k, o, t)

\* the responses of the two list endpoints, and dismissing a notice
NextFeeds ==
  \/ \E o \in Outcomes, d \in FeedData : FetchTweetsResponse(o, d)
  \/ \E o \in Outcomes, d \in FeedData : FetchMyTweetsResponse(o, d)
  \/ closeMessageBox

Next ==
  NextPage \/ NextGenerate \/ NextPublish \/ NextEdit \/ NextDirect
    \/ NextSession \/ NextFeeds
    \/ \E v \in SearchTerms : onInputSearch(v)

Spec == Init /\ [][Next]_vars

\* the same program when the user only works on drafts
NextDrafts == NextPage \/ NextGenerate \/ NextPublish \/ NextEdit
SpecDrafts == Init /\ [][NextDrafts]_vars

\* ... after having logged in on an earlier visit
SpecReturning == InitReturning /\ [][NextDrafts]_vars

\* ... and logging out while working on drafts
NextLogout == NextPage \/ NextGenerate \/ NextPublish \/ handleLogout
SpecLogout == InitReturning /\ [][NextLogout]_vars

\* the same program when a page is opened on any stored lists and the user
\* edits and deletes the restored items
NextStored == NextPage \/ NextEdit
SpecStored == InitStored /\ [][NextStored]_vars

\* the same program when the user only reads and searches the public feed
NextFeed ==
  \/ Load
  \/ \E v \in SearchTerms : onInputSearch(v)
  \/ \E o \in Outcomes, d \in FeedLists : FetchTweetsResponse(o, d)
  \/ closeMessageBox
SpecFeed == Init /\ [][NextFeed]_vars

\* the same program when the user only logs in and out and reads the feeds
NextAccount == NextPage \/ NextSession \/ NextFeeds
SpecAccount == Init /\ [][NextAccount]_vars

\* the token a login of this visit is answered with: not the one an earlier
\* visit stored
LaterTokens == {"tk2"}

\* the same program when a returning user generates drafts, logs out and logs
\* in again
NextRelogin ==
  \/ Load
  \/ NextGenerate
  \/ handleLogout
  \/ LoginButtonClick
  \/ \E u \in Users : handleAuthSubmit(u)
  \/ \E k \in 1..Len(authReqs), o \in Outcomes, t \in LaterTokens :
        AuthResponse(k, o, t)
SpecRelogin == InitReturning /\ [][NextRelogin]_vars

\* the same program when a returning user posts the command input while the
\* two lists requested at startup are still on their way
NextTimeline ==
  \/ Load
  \/ \E v \in CommandTexts : onInputCommand(v)
  \/ CommandPostButtonClick
  \/ \E k \in 1..Len(postReqs), o \in Outcomes, t \in TweetIds :
        PostPrimaryResponse(k, o, t)
  \/ \E k \in 1..Len(postReqs), o \in Outcomes : PostMirrorResponse(k, o)
  \/ NextFeeds
SpecTimeline == InitReturning /\ [][NextTimeline]_vars

\* a generate call in flight gets its answer, or fails on the network
GenerateReturns ==
  \E k \in 1..Len(genReqs), o \in Outcomes, c \in Contents :
    GenerateResponse(k, o, c)

\* a post call in flight, primary or mirror, gets its answer or fails
PostReturns ==
  \/ \E k \in 1..Len(postReqs), o \in Outcomes, t \in TweetIds :
        PostPrimaryResponse(k, o, t)
  \/ \E k \in 1..Len(postReqs), o \in Outcomes : PostMirrorResponse(k, o)

\* the user works on drafts, and every remote call that was issued returns
SpecResponsive ==
  /\ Init
  /\ [][NextDrafts]_vars
  /\ WF_vars(GenerateReturns)
  /\ WF_vars(PostReturns)

\* ------------------------------------------------------------------ claims
FailedResponses == {"401", "fail", "neterr"}

\* ids of the entries of the persisted draft snapshot
SnapshotIds ==
  {localStorage.draftTweets.str[j][1] : j \in 1..Len(localStorage.draftTweets.str)}

PostedCount(gt, id) ==
  Cardinality({i \in 1..Len(gt) : gt[i].id = id /\ gt[i].posted})

\* C1: after publish(id) whose primary post call came back non-2xx or failed
\* on the network, the item with that id is still unposted and still in the
\* draftTweets snapshot.
C1_FailedPublishKeepsDraft ==
  (lastEvent.op \in {"post:" \o o : o \in FailedResponses} /\ lastEvent.id # 0)
    => \A i \in 1..Len(generatedTweets) :
         generatedTweets[i].id = lastEvent.id
           => ~generatedTweets[i].posted /\ lastEvent.id \in SnapshotIds

\* C2: generatedTweets never holds two items with the same id.
C2_NoDuplicateIds ==
  \A i, j \in 1..Len(generatedTweets) :
    i # j => generatedTweets[i].id # generatedTweets[j].id

\* C3: no step other than a delete or the logout reset lowers, for any id, the
\* number of items with that id that are posted: a posted item stays posted.
C3_PostedStaysPosted ==
  [][lastEvent'.op \notin {"delete", "logout"}
       => \A i \in 1..Len(generatedTweets) :
            PostedCount(generatedTweets', generatedTweets[i].id)
              >= PostedCount(generatedTweets, generatedTweets[i].id)]_vars

\* a reload, and an edit, that found a posted item in the list
C3_Witness ==
  /\ lastEvent.op \in {"load", "edit", "post:fail", "generate:ok"}
  /\ \E i \in 1..Len(generatedTweets) : generatedTweets[i].posted
  /\ \E i \in 1..Len(generatedTweets) : ~generatedTweets[i].posted

\* C4: a generate call that fails (401, other non-2xx, network error) leaves
\* generatedTweets and the persisted draft snapshot as they were.
C4_FailedGenerateChangesNothing ==
  [][lastEvent'.op \in {"generate:" \o o : o \in FailedResponses}
       => /\ generatedTweets' = generatedTweets
          /\ localStorage'.draftTweets = localStorage.draftTweets]_vars

\* a failed generate call with a draft in the list
C4_Witness ==
  /\ lastEvent.op \in {"generate:" \o o : o \in FailedResponses}
  /\ Len(generatedTweets) > 0
  /\ Len(localStorage.draftTweets.str) > 0

C6_SuccessfulPublish ==
  (/\ lastEvent.op = "post:ok"
   /\ lastEvent.id # 0
   /\ loggedInUser # NULL
   /\ getAuthToken(localStorage) # NULL)
    => /\ \A i \in 1..Len(generatedTweets) :
            generatedTweets[i].id = lastEvent.id => generatedTweets[i].posted
       /\ \E j \in 1..Len(myTweets) : myTweets[j].id = lastEvent.aux
       /\ lastTweetId = lastEvent.aux
       /\ lastEvent.id \notin SnapshotIds

\* C7: a 401 response to a generate call leaves no token and no user name,
\* leaves generatedTweets unchanged and opens the auth modal.
C7_Generate401ClearsSession ==
  [][lastEvent'.op = "generate:401"
       => /\ getAuthToken(localStorage') = NULL
          /\ loggedInUser' = NULL
          /\ showAuthModal'
          /\ generatedTweets' = generatedTweets]_vars

\* a 401 came back to a user who was logged in and had a draft
C7_Witness ==
  /\ lastEvent.op = "generate:401"
  /\ localStorage.loggedInUser # NULL
  /\ mineReqs # <<>>
  /\ Len(generatedTweets) > 0

\* C8: after a 401 response to a generate call the command input still holds
\* the submitted topic (unless the user typed something else in between),
\* whether the call was started with the button or with the Enter key.
C8_TopicKeptOn401 ==
  (lastEvent.op = "generate:401" /\ lastEvent.aux # "retyped")
    => command = lastEvent.text

\* C9: a successful generate call with content c appends exactly one item
\* with text c and posted=false at the end of generatedTweets, leaves the
\* items before it as they were, and appends a transcript line containing c.
C9_GenerateAppendsOneDraft ==
  [][lastEvent'.op = "generate:ok"
       => LET n == Len(generatedTweets)
              h == Len(history)
          IN  /\ Len(generatedTweets') = n + 1
              /\ SubSeq(generatedTweets', 1, n) = generatedTweets
              /\ generatedTweets'[n + 1].text = lastEvent'.text
              /\ ~generatedTweets'[n + 1].posted
              /\ Len(history') = h + 1
              /\ SubSeq(history', 1, h) = history
              /\ history'[h + 1][2] = lastEvent'.text]_vars

\* a generation succeeded while the list already held an item
C9_Witness ==
  /\ lastEvent.op = "generate:ok"
  /\ Len(generatedTweets) = 2
  /\ generatedTweets[2].text = lastEvent.text

\* C10: a load that finds a draftTweets snapshot with one unposted item ends
\* with that item in generatedTweets exactly once, unposted, with its text.
C10_LoadRestoresTheDraft ==
  [][(/\ lastEvent'.op = "load"
      /\ localStorage.draftTweets.has
      /\ Len(localStorage.draftTweets.str) = 1)
       => LET d    == JSONparse(localStorage.draftTweets.str)[1]
              hits == {i \in 1..Len(generatedTweets') : generatedTweets'[i] = d}
          IN  /\ ~d.posted
              /\ Cardinality(hits) = 1]_vars

\* the page was reloaded with one draft (next to a posted item) in storage
C10_Witness ==
  /\ lastEvent.op = "load"
  /\ Len(generatedTweets) = 2
  /\ generatedTweets[1].posted
  /\ ~generatedTweets[2].posted
  /\ Len(localStorage.draftTweets.str) = 1

\* C11: the token (as getAuthToken reads it) and the user name are both
\* present or both absent, in localStorage and, once the page is loaded, in
\* memory (loggedInUser() against the stored token).
C11_TokenAndUserTogether ==
  /\ (getAuthToken(localStorage) = NULL) = (localStorage.loggedInUser = NULL)
  /\ mounted => ((getAuthToken(localStorage) = NULL) = (loggedInUser = NULL))

\* C12: a 401 response to a call that carried the session's token - a
\* generate call or a post to /direct-post - leaves no token and no user name.
C12_UnauthorizedEndsSession ==
  [][(\/ \E k \in 1..Len(genReqs), c \in Contents :
           GenerateResponse(k, "401", c) /\ genReqs[k].token # NULL
      \/ \E k \in 1..Len(postReqs), t \in TweetIds :
           /\ PostPrimaryResponse(k, "401", t)
           /\ postReqs[k].endpoint = "/direct-post"
           /\ postReqs[k].token # NULL)
       => /\ getAuthToken(localStorage') = NULL
          /\ loggedInUser' = NULL]_vars

\* the state the logout handler leaves, up to the next notice or login
LoggedOut ==
  /\ messageBox = [message |-> "Logged out successfully", type |-> "info"]
  /\ loggedInUser = NULL
  /\ getAuthToken(localStorage) = NULL

\* the response to a call that was sent with a session's token
ResponseToSessionCall ==
  \/ \E k \in 1..Len(genReqs), o \in Outcomes, c \in Contents :
        GenerateResponse(k, o, c) /\ genReqs[k].token # NULL
  \/ \E k \in 1..Len(postReqs), o \in Outcomes, t \in TweetIds :
        PostPrimaryResponse(k, o, t) /\ postReqs[k].token # NULL
  \/ \E k \in 1..Len(postReqs), o \in Outcomes :
        PostMirrorResponse(k, o) /\ postReqs[k].token # NULL

\* C13: when, after a logout and before any login, the response to a generate
\* or post call of the ended session arrives, token and user name are still
\* absent from memory and localStorage, and generatedTweets, myTweets and the
\* draftTweets snapshot are still empty.
C13_NothingStaleAfterLogout ==
  [][(LoggedOut /\ ResponseToSessionCall)
       => /\ getAuthToken(localStorage') = NULL
          /\ localStorage'.loggedInUser = NULL
          /\ loggedInUser' = NULL
          /\ generatedTweets' = <<>>
          /\ myTweets' = <<>>
          /\ localStorage'.draftTweets.str = <<>>]_vars

\* C14: a login or signup call that comes back non-2xx or fails on the network
\* leaves the token and user name of localStorage and loggedInUser() as they
\* were, does not close the auth modal and shows an error notice.
C14_FailedLoginChangesNothing ==
  [][lastEvent'.op \in {"auth:" \o o : o \in FailedResponses}
       => /\ localStorage' = localStorage
          /\ loggedInUser' = loggedInUser
          /\ showAuthModal' = showAuthModal
          /\ messageBox' = [message |-> "Authentication failed", type |-> "error"]]_vars

\* a login failed with the modal open, for a visitor whose user name was left
\* in localStorage by an earlier session
C14_Witness ==
  /\ lastEvent.op \in {"auth:" \o o : o \in FailedResponses}
  /\ showAuthModal
  /\ localStorage.loggedInUser # NULL
  /\ messageBox.type = "error"

\* C15: every post call sent to /direct-post was sent while a session existed
\* and carries its token; a call made without a session goes to /public-post
\* without a credential.
C15_PrivatePostHasSession ==
  \A k \in 1..Len(postReqs) :
    /\ postReqs[k].endpoint = "/direct-post" => postReqs[k].token # NULL
    /\ postReqs[k].endpoint = "/public-post" => postReqs[k].token = NULL

\* C16: when the mirror call of a publish whose /direct-post call succeeded
\* comes back non-2xx or fails on the network, the published item is posted,
\* the new tweet is at the head of myTweets and no notice is raised.
C16_MirrorNeverFailsPublish ==
  [][\A k \in 1..Len(postReqs), o \in FailedResponses :
       PostMirrorResponse(k, o)
         => /\ \A i \in 1..Len(generatedTweets') :
                 generatedTweets'[i].id = postReqs[k].id => generatedTweets'[i].posted
            /\ Len(myTweets') = Len(myTweets) + 1
            /\ myTweets'[1].id = postReqs[k].tweetId
            /\ messageBox' = messageBox
            /\ apiError' = apiError]_vars

\* C17: after a load no item of generatedTweets is posted: only unposted
\* drafts come back from localStorage.
C17_OnlyDraftsSurviveReload ==
  lastEvent.op = "load"
    => \A i \in 1..Len(generatedTweets) : ~generatedTweets[i].posted

\* C18: loading again from the localStorage a load has left gives the list that
\* load ended with, and that list holds no two items with the same id.
C18_LoadTwiceSameList ==
  [][lastEvent'.op = "load"
       => LET twice == LoadedTweets(localStorage')
          IN  /\ twice = generatedTweets'
              /\ \A i, j \in 1..Len(twice) : i # j => twice[i].id # twice[j].id]_vars

ItemIds(gt) == {gt[i].id : i \in 1..Len(gt)}

StoredIds(entry) == {entry.str[j][1] : j \in 1..Len(entry.str)}

\* C19: a delete of id d leaves generatedTweets without any item of id d,
\* posted or not, keeps the items of other ids in their order, and removes d
\* from both persisted lists; and no later step other than a successful
\* generation (which creates a new item) brings an id into the list that was
\* not in it - neither the completion of a publish nor a reload.
C19_DeleteIsFinal ==
  [][/\ lastEvent'.op = "delete"
          => LET d == lastEvent'.id
                 others == {i \in 1..Len(generatedTweets) : generatedTweets[i].id # d}
             IN  /\ d \notin ItemIds(generatedTweets')
                 /\ Len(generatedTweets') = Cardinality(others)
                 /\ \A n \in 1..Len(generatedTweets') :
                      \E i \in others :
                        /\ generatedTweets'[n] = generatedTweets[i]
                        /\ Cardinality({j \in others : j <= i}) = n
                 /\ d \notin StoredIds(localStorage'.generatedTweets)
                 /\ d \notin StoredIds(localStorage'.draftTweets)
     /\ lastEvent'.op # "generate:ok"
          => /\ ItemIds(generatedTweets') \subseteq ItemIds(generatedTweets)
             /\ StoredIds(localStorage'.generatedTweets) \subseteq ItemIds(generatedTweets)]_vars

\* the response to a publish arrived after its item had been deleted, with
\* another item left in the list
C19_Witness ==
  /\ lastEvent.op \in {"post:" \o o : o \in Outcomes}
  /\ lastEvent.id # 0
  /\ lastEvent.id \notin ItemIds(generatedTweets)
  /\ Len(generatedTweets) > 0

\* C20: an edit leaves every posted item of generatedTweets as it was.
C20_EditSparesPostedItems ==
  [][lastEvent'.op = "edit"
       => /\ Len(generatedTweets') = Len(generatedTweets)
          /\ \A i \in 1..Len(generatedTweets) :
               generatedTweets[i].posted => generatedTweets'[i] = generatedTweets[i]]_vars

\* C21: a login, list-mine or list-public call that fails on the network shows
\* an error notice and leaves the token, the user name, generatedTweets, tweets
\* and myTweets as they were.
C21_NetworkErrorChangesNothing ==
  [][(\/ lastEvent'.op \in {"auth:neterr", "feedNetErr"}
      \/ lastEvent'.op = "mineFail" /\ lastEvent'.aux = "neterr")
       => /\ messageBox'.type = "error"
          /\ localStorage'.authToken = localStorage.authToken
          /\ localStorage'.loggedInUser = localStorage.loggedInUser
          /\ loggedInUser' = loggedInUser
          /\ generatedTweets' = generatedTweets
          /\ tweets' = tweets
          /\ myTweets' = myTweets]_vars

\* two characters that differ at most in case
SameLetter(x, y) ==
  \/ x = y
  \/ {x, y} \in {{"a", "A"}, {"b", "B"}, {"c", "C"}}

\* the text of tweet t (content, else text) contains term, case aside
ContainsTerm(t, term) ==
  LET txt == IF t.content # <<>> THEN t.content ELSE t.text
  IN  \E k \in 0..(Len(txt) - Len(term)) :
        \A j \in 1..Len(term) : SameLetter(txt[k + j], term[j])

\* C22: the displayed feed is the subsequence of the fetched list, in its
\* order and with the tweets as fetched, of the tweets whose text contains the
\* search term case-insensitively (possibly empty); typing a search term
\* leaves the fetched list as it was.
C22_FeedFilter ==
  /\ [](LET hits == {i \in 1..Len(tweets) : ContainsTerm(tweets[i], searchTerm)}
        IN  /\ Len(displayedTweets) = Cardinality(hits)
            /\ \A n \in 1..Len(displayedTweets) :
                 \E i \in hits :
                   /\ displayedTweets[n] = tweets[i]
                   /\ Cardinality({j \in hits : j <= i}) = n)
  /\ [][lastEvent'.op = "search" => tweets' = tweets]_vars

\* a search term in capitals against a list whose first tweet holds it in
\* small letters, in its text member only, and whose second does not hold it
C22_Witness ==
  /\ searchTerm = <<"B", "A">>
  /\ Len(tweets) = 2
  /\ tweets[1].content = <<>>
  /\ tweets[1].text = <<"b", "a">>
  /\ tweets[2].content = <<"a">>
  /\ displayedTweets = <<tweets[1]>>

\* C23: the unposted items of generatedTweets after a load are the unposted
\* items from before the reload: same order, same ids, same texts.
C23_ReloadKeepsDrafts ==
  [][lastEvent'.op = "load"
       => LET before == {i \in 1..Len(generatedTweets) : ~generatedTweets[i].posted}
              after  == {i \in 1..Len(generatedTweets') : ~generatedTweets'[i].posted}
          IN  /\ Cardinality(after) = Cardinality(before)
              /\ \A i \in before :
                   \E n \in after :
                     /\ generatedTweets'[n] = generatedTweets[i]
                     /\ Cardinality({m \in after : m <= n})
                          = Cardinality({j \in before : j <= i})]_vars

\* the page was reloaded with an edited draft in front of a posted item: the
\* merge moved the draft behind it
C23_Witness ==
  /\ lastEvent.op = "load"
  /\ Len(generatedTweets) = 2
  /\ generatedTweets[1].posted
  /\ ~generatedTweets[2].posted
  /\ generatedTweets[2].text = LongText
  /\ generatedTweets[2].id < generatedTweets[1].id

ItemCount(gt, id) == Cardinality({i \in 1..Len(gt) : gt[i].id = id})

\* C24: no step other than a delete or the logout reset lowers the number of
\* items generatedTweets holds for any id: generation, edit, publish (ok or
\* failed), 401 handling and the startup load remove nothing.
C24_OnlyDeleteRemoves ==
  [][lastEvent'.op \notin {"delete", "logout"}
       => \A id \in ItemIds(generatedTweets) :
            ItemCount(generatedTweets', id) >= ItemCount(generatedTweets, id)]_vars

\* the page was reloaded with nothing but posted items in the list
C24_Witness ==
  /\ lastEvent.op = "load"
  /\ Len(generatedTweets) = 2
  /\ \A i \in 1..Len(generatedTweets) : generatedTweets[i].posted

\* C25: the response to publish(id) leaves every item with another id as it
\* was: posted flag and text, also when its text is that of the published item.
C25_PublishTouchesOneId ==
  [][\A k \in 1..Len(postReqs) :
       (/\ postReqs[k].id # 0
        /\ \/ \E o \in Outcomes, t \in TweetIds : PostPrimaryResponse(k, o, t)
           \/ \E o \in Outcomes : PostMirrorResponse(k, o))
         => /\ Len(generatedTweets') = Len(generatedTweets)
            /\ \A i \in 1..Len(generatedTweets) :
                 generatedTweets[i].id # postReqs[k].id
                   => generatedTweets'[i] = generatedTweets[i]]_vars

\* C26: when the successful response to publish(id) turns an item with that id
\* from unposted to posted, the item's text is the content the post call sent.
C26_PostedTextIsSentContent ==
  [][\A k \in 1..Len(postReqs) :
       (/\ postReqs[k].id # 0
        /\ lastEvent'.op = "post:ok"
        /\ lastEvent'.text # "mirror:neterr"
        /\ \/ \E o \in Outcomes, t \in TweetIds : PostPrimaryResponse(k, o, t)
           \/ \E o \in Outcomes : PostMirrorResponse(k, o))
         => \A i \in 1..Len(generatedTweets) :
              (/\ generatedTweets[i].id = postReqs[k].id
               /\ ~generatedTweets[i].posted
               /\ generatedTweets'[i].posted)
                => generatedTweets'[i].text = postReqs[k].content]_vars

\* C27: a click on the Post button of a draft whose text is empty or blank
\* issues no post call and leaves the item unposted.
C27_BlankDraftStaysDraft ==
  [][\A k \in 1..Len(generatedTweets) :
       (DraftPostButtonClick(k) /\ TrimIsEmpty(generatedTweets[k].text))
         => /\ postReqs' = postReqs
            /\ Len(generatedTweets') = Len(generatedTweets)
            /\ ~generatedTweets'[k].posted]_vars

\* C28: at most one generate call and at most one post call is in flight.
C28_OneCallOfEachKind ==
  /\ Len(genReqs) <= 1
  /\ Len(postReqs) <= 1

\* C29: once the page is loaded, the draftTweets snapshot lists exactly the
\* unposted items of generatedTweets, in their order, with id and text: no
\* posted item, no draft missing.
C29_SnapshotIsTheDrafts ==
  mounted
    => LET drafts == {i \in 1..Len(generatedTweets) : ~generatedTweets[i].posted}
           snap   == localStorage.draftTweets.str
       IN  /\ localStorage.draftTweets.has
           /\ Len(snap) = Cardinality(drafts)
           /\ \A i \in drafts :
                LET n == Cardinality({j \in drafts : j <= i})
                IN  snap[n] = <<generatedTweets[i].id, generatedTweets[i].text, FALSE>>

\* an edit was written through while the list also held a posted item
C29_Witness ==
  /\ lastEvent.op = "edit"
  /\ Len(generatedTweets) = 2
  /\ \E i \in 1..2 : generatedTweets[i].posted
  /\ Len(localStorage.draftTweets.str) = 1
  /\ localStorage.draftTweets.str[1][2] = LongText

C31_Late401SparesNewSession ==
  [][\A k \in 1..Len(genReqs), c \in Contents :
       (/\ GenerateResponse(k, "401", c)
        /\ loggedInUser # NULL
        /\ getAuthToken(localStorage) # NULL
        /\ genReqs[k].token # getAuthToken(localStorage))
         => /\ localStorage'.authToken = localStorage.authToken
            /\ localStorage'.loggedInUser = localStorage.loggedInUser
            /\ loggedInUser' = loggedInUser]_vars

\* the tweets of list that a successful publish has put there
Published(list) == {i \in 1..Len(list) : list[i].id \in TweetIds}

\* C32: a tweet that a successful publish added to myTweets (and to tweets)
\* is still there after every step other than a logout or a reload of the
\* page, also after the answer to a list call that was issued before the
\* publish.
C32_PublishedStaysListed ==
  [][lastEvent'.op \notin {"logout", "load"}
       => /\ \A i \in Published(myTweets) :
               \E j \in 1..Len(myTweets') : myTweets'[j] = myTweets[i]
          /\ \A i \in Published(tweets) :
               \E j \in 1..Len(tweets') : tweets'[j] = tweets[i]]_vars

\* the position of the item postGeneratedTweet(id) finds and sends, if any
FoundAt(gt, id) ==
  {i \in 1..Len(gt) : gt[i].id = id /\ \A j \in 1..(i - 1) : gt[j].id # id}

\* C33: while publish(X) is in flight, an edit of another draft Y gives Y the
\* new text at once, with its id and posted = FALSE; and when the answer to
\* publish(X) arrives right after that edit, whatever its outcome, Y is as the
\* edit left it.
C33_EditDuringPublishSticks ==
  [][/\ \A k \in 1..Len(generatedTweets), t \in DraftTexts, p \in 1..Len(postReqs) :
          (/\ DraftTextareaInput(k, t)
           /\ postReqs[p].id # 0
           /\ k \notin FoundAt(generatedTweets, postReqs[p].id))
            => /\ Len(generatedTweets') = Len(generatedTweets)
               /\ generatedTweets'[k] = [id |-> generatedTweets[k].id, text |-> t,
                                         posted |-> FALSE]
     /\ \A p \in 1..Len(postReqs) :
          (/\ lastEvent.op = "edit"
           /\ postReqs[p].id # 0
           /\ \/ \E o \in Outcomes, t \in TweetIds : PostPrimaryResponse(p, o, t)
              \/ \E o \in Outcomes : PostMirrorResponse(p, o))
            => /\ Len(generatedTweets') = Len(generatedTweets)
               /\ \A i \in 1..Len(generatedTweets) :
                    (/\ generatedTweets[i].id = lastEvent.id
                     /\ ~generatedTweets[i].posted
                     /\ i \notin FoundAt(generatedTweets, postReqs[p].id))
                      => generatedTweets'[i] = generatedTweets[i]]_vars

\* C34: when every remote call that was issued returns, isGenerating and
\* isPosting each become false again; and neither flag is false while a call
\* of its kind is in flight.
C34_FlagsFollowCalls ==
  /\ isGenerating ~> ~isGenerating
  /\ isPosting ~> ~isPosting
  /\ [](genReqs # <<>> => isGenerating)
  /\ [](postReqs # <<>> => isPosting)
====
